---- MODULE Spec2Model ----
(***************************************************************************)
(* The directory inventory of fsscan.py: get_folder_tree and the helpers   *)
(* it calls for every directory entry (permissions, checksum, content,     *)
(* size, extension), run step by step over a small filesystem.             *)
(*                                                                         *)
(* Optional values (Python's None or a value) are tuples of length 0 or 1: *)
(* None is << >> and a value v is << v >>.  Names and texts are sequences  *)
(* of one-character strings, file data are sequences of byte values,       *)
(* paths are records [abs, parts] of a flag and a sequence of names.       *)
(***************************************************************************)
EXTENDS Integers, Sequences, FiniteSets, TLC

(* ------------------------------ bounds --------------------------------- *)

\* Number of filesystem entries below the top directory.
MaxNodes == 3

\* Number of entries below the top directory in the filesystems whose
\* metadata queries fail.
MaxFaultNodes == 2

(* --------------------------- plain values ------------------------------ *)

\* Symbolic links the kernel follows in one path resolution (os.stat, open,
\* os.listdir) before it fails with ELOOP.
MAXSYMLINKS == 40

None == << >>

Some(v) == << v >>

Kinds == {"dir", "file", "fifo", "sock", "symlink"}

\* The queries of one entry that the environment can make fail, one per
\* call site: "stat" is the os.stat call of _get_permissions (line 185),
\* "size" the os.path.getsize call of get_file_size_in_bytes (line 66),
\* "read" and "hash" the open/read calls of read_file_to_string (line 89)
\* and calculate_file_checksum (line 129).  The classification calls of
\* lines 225 and 229 are separate system calls and are not affected.
Faults == {"stat", "hash", "read", "size"}

\* The name of entry i in its directory.
NameTable ==
  << <<"a">>,
     <<"v", ".", "1">>,
     <<".", "h">>,
     <<"c", ".", "t", ".", "g">>,
     <<"e">>,
     <<"f", ".">> >>

NameOf(i) == NameTable[i]

\* The bytes stored in entry i when it is a regular file.
DataTable ==
  << <<104, 105>>,
     << >>,
     <<195, 169>>,
     <<255>>,
     <<97, 13, 10>>,
     <<13>> >>

DataOf(i) == DataTable[i]

\* The directory the filesystem of the model hangs under, and the process's
\* working directory.
TopName == <<"w">>

TopPath == [abs |-> TRUE, parts |-> <<TopName>>]

Cwd == TopPath

\* A name no directory holds.
MissingName == <<"m", "i", "s", "s">>

(* ----------------------------- filesystem ------------------------------ *)

\* One inode: its kind, the directory holding it, the inode a symbolic link
\* points to (None: dangling), whether listing it works, the failing queries.
Inode(kind, parent, target, listing, faults) ==
  [kind |-> kind, parent |-> parent, target |-> target,
   listing |-> listing, faults |-> faults]

DirsOf(f, k) == {d \in 0 .. (k - 1) : f[d].kind = "dir"}

\* Non-regular entries and directories whose listing fails; no symbolic link.
ErrorOptions(f, k) ==
  UNION { {Inode("file", d, None, "ok", {}),
           Inode("fifo", d, None, "ok", {}),
           Inode("sock", d, None, "ok", {})}
          \cup {Inode("dir", d, None, l, {}) : l \in {"ok", "denied", "oserror"}}
        : d \in DirsOf(f, k) }

\* Symbolic links to the top directory, to the inode before them or to
\* nothing, among regular files and listable directories.
LinkOptions(f, k) ==
  UNION { {Inode("file", d, None, "ok", {}),
           Inode("dir", d, None, "ok", {})}
          \cup {Inode("symlink", d, t, "ok", {}) :
                  t \in {None, Some(0), Some(k - 1)}}
        : d \in DirsOf(f, k) }

\* Regular files and listable directories, with failing queries.
PlainOptions(f, k) ==
  UNION { {Inode("file", d, None, "ok", q) : q \in SUBSET Faults}
          \cup {Inode("dir", d, None, "ok", {})}
        : d \in DirsOf(f, k) }

RECURSIVE ErrorFs(_)
ErrorFs(k) ==
  IF k = 0
  THEN {(0 :> Inode("dir", 0, None, "ok", {}))}
  ELSE UNION { {f @@ (k :> o) : o \in ErrorOptions(f, k)} : f \in ErrorFs(k - 1) }

RECURSIVE LinkFs(_)
LinkFs(k) ==
  IF k = 0
  THEN {(0 :> Inode("dir", 0, None, "ok", {}))}
  ELSE UNION { {f @@ (k :> o) : o \in LinkOptions(f, k)} : f \in LinkFs(k - 1) }

RECURSIVE PlainFs(_)
PlainFs(k) ==
  IF k = 0
  THEN {(0 :> Inode("dir", 0, None, "ok", {}))}
  ELSE UNION { {f @@ (k :> o) : o \in PlainOptions(f, k)} : f \in PlainFs(k - 1) }

\* A top directory that cannot be listed, holding regular files.
UnlistableTopFs ==
  {[i \in 0 .. MaxNodes |->
      IF i = 0 THEN Inode("dir", 0, None, l, {})
      ELSE Inode("file", 0, None, "ok", {})] : l \in {"denied", "oserror"}}

\* A directory holding a file and a directory, between two files of the top
\* directory; its listing works or fails.
NestedFs ==
  {(0 :> Inode("dir", 0, None, "ok", {})) @@ (1 :> Inode("file", 0, None, "ok", {}))
     @@ (2 :> Inode("dir", 0, None, l, {})) @@ (3 :> Inode("file", 2, None, "ok", {}))
     @@ (4 :> Inode("dir", 2, None, "ok", {})) @@ (5 :> Inode("file", 0, None, "ok", {}))
   : l \in {"ok", "denied", "oserror"}}

\* Inode i is directory d or lies below it.
RECURSIVE Within(_, _, _)
Within(f, i, d) ==
  IF i = d THEN TRUE ELSE IF i = 0 THEN FALSE ELSE Within(f, f[i].parent, d)

\* The inode that inode i leads to, every link followed, or None; a link
\* of these filesystems points to an inode made before it.
RECURSIVE LinkEnd(_, _)
LinkEnd(f, i) ==
  IF f[i].kind # "symlink" THEN Some(i)
  ELSE IF f[i].target = None THEN None
  ELSE LinkEnd(f, f[i].target[1])

\* No directory that a symbolic link leads to holds, at any depth, a
\* symbolic link that leads to a directory: following links never comes
\* back to a directory.
NoLinkCycle(f) ==
  LET DirLinks == {i \in DOMAIN f : /\ f[i].kind = "symlink"
                                     /\ LinkEnd(f, i) # None
                                     /\ f[LinkEnd(f, i)[1]].kind = "dir"}
  IN \A l \in DirLinks : \A m \in DirLinks : ~Within(f, m, LinkEnd(f, l)[1])

\* A top directory holding a file or a directory, and one symbolic link, in
\* the top directory or in that directory, which leads back to the top
\* directory or to that directory: a scan goes round the link until the
\* kernel's limit.
LoopFs ==
  {f \in {(0 :> Inode("dir", 0, None, "ok", {})) @@ (1 :> Inode(k, 0, None, "ok", {}))
            @@ (2 :> Inode("symlink", d, Some(t), "ok", {}))
          : k \in {"file", "dir"}, d \in {0, 1}, t \in {0, 1}}
     : f[f[2].parent].kind = "dir" /\ Within(f, 2, LinkEnd(f, 2)[1])}

\* The filesystems with symbolic links a scan is run on.  A scan follows
\* every link to a directory, so where several links lead back to a
\* directory it names a path for every way of going round them until the
\* kernel's limit; the links of these filesystems lead back nowhere, or
\* there is one link and one way round.
ScanLinkFs == {f \in LinkFs(MaxNodes) : NoLinkCycle(f)} \cup LoopFs

\* The filesystems a scan is run on.
Filesystems ==
  ErrorFs(MaxNodes) \cup ScanLinkFs \cup PlainFs(MaxFaultNodes)
    \cup UnlistableTopFs \cup NestedFs

(* -------------------------------- paths -------------------------------- *)

Dot == <<".">>

DotDot == <<".", ".">>

\* os.path.join(directory, name)
Join(p, name) == [abs |-> p.abs, parts |-> Append(p.parts, name)]

\* os.path.basename(path)
BaseName(p) == IF p.parts = << >> THEN << >> ELSE p.parts[Len(p.parts)]

\* os.path.normpath on the components: "." is dropped, ".." drops the
\* component before it; components without either are kept as they are.
RECURSIVE NormParts(_, _)
NormParts(parts, acc) ==
  IF \A k \in 1 .. Len(parts) : parts[k] \notin {Dot, DotDot} THEN acc \o parts
  ELSE IF Head(parts) = Dot THEN NormParts(Tail(parts), acc)
  ELSE IF Head(parts) = DotDot
       THEN NormParts(Tail(parts),
                      IF acc = << >> THEN acc ELSE SubSeq(acc, 1, Len(acc) - 1))
  ELSE NormParts(Tail(parts), Append(acc, Head(parts)))

\* os.path.abspath(path)
AbsPath(p) ==
  [abs |-> TRUE,
   parts |-> NormParts(IF p.abs THEN p.parts ELSE Cwd.parts \o p.parts, << >>)]

\* Length of the longest common prefix of two sequences of names.
CommonLen(a, b) ==
  Cardinality({n \in 1 .. (IF Len(a) < Len(b) THEN Len(a) ELSE Len(b)) :
                 \A k \in 1 .. n : a[k] = b[k]})

\* os.path.relpath(path, start), both absolute.
RelPath(path, start) ==
  LET a == AbsPath(start).parts
      b == AbsPath(path).parts
      c == CommonLen(a, b)
      rel == [j \in 1 .. (Len(a) - c) |-> DotDot] \o SubSeq(b, c + 1, Len(b))
  IN [abs |-> FALSE, parts |-> IF rel = << >> THEN <<Dot>> ELSE rel]

(* ------------------------- the operating system ------------------------ *)

\* The entries of directory d, in the order os.listdir returns them.
RECURSIVE EntriesFrom(_, _, _)
EntriesFrom(f, d, i) ==
  IF i \notin DOMAIN f THEN << >>
  ELSE (IF f[i].parent = d THEN <<i>> ELSE << >>) \o EntriesFrom(f, d, i + 1)

Entries(f, d) == EntriesFrom(f, d, 1)

Names(f, d) == [j \in 1 .. Len(Entries(f, d)) |-> NameOf(Entries(f, d)[j])]

Child(f, d, name) ==
  {i \in DOMAIN f : i > 0 /\ f[i].parent = d /\ NameOf(i) = name}

\* Follow symbolic links from inode i with a budget of links left:
\* <<inode, budget left>>, <<"EACCES">> when a directory above a link's
\* target cannot be searched (mode d---------), or None (dangling link, or
\* ELOOP).
RECURSIVE Follow(_, _, _)
Follow(f, i, budget) ==
  IF f[i].kind # "symlink" THEN <<i, budget>>
  ELSE IF budget = 0 \/ f[i].target = None THEN None
  ELSE IF \E d \in DOMAIN f : /\ d # f[i].target[1]
                              /\ Within(f, f[i].target[1], d)
                              /\ f[d].listing = "denied"
       THEN <<"EACCES">>
  ELSE Follow(f, f[i].target[1], budget - 1)

\* The components lo .. hi of parts looked up one after the other, as the
\* kernel does, starting at <<directory inode, links left>>: where the walk
\* ends, <<"EACCES">> when a directory it must search is of mode
\* d---------, or None (ENOENT, ENOTDIR, ELOOP).  "." stays, ".." goes to
\* the directory holding the current one; the empty component, which a
\* separator at the end of a path leaves, asks for a directory without
\* searching it; inode -2 stands for the directory above the top one,
\* which holds it.  A stretch of several components is
\* walked as its first half, then its second half from where the first
\* ended.
RECURSIVE Walk(_, _, _, _, _)
Walk(f, at, parts, lo, hi) ==
  IF lo > hi THEN at
  ELSE IF lo = hi
  THEN IF at[1] = -2
       THEN (IF parts[lo] \in {Dot, DotDot, << >>} THEN at
             ELSE IF parts[lo] = TopName THEN <<0, at[2]>> ELSE None)
       ELSE IF f[at[1]].kind # "dir" THEN None
       ELSE IF parts[lo] = << >> THEN at
       ELSE IF f[at[1]].listing = "denied" THEN <<"EACCES">>
       ELSE IF parts[lo] = Dot THEN at
       ELSE IF parts[lo] = DotDot
            THEN <<IF at[1] = 0 THEN -2 ELSE f[at[1]].parent, at[2]>>
       ELSE IF Child(f, at[1], parts[lo]) = {} THEN None
       ELSE Follow(f, CHOOSE i \in Child(f, at[1], parts[lo]) : TRUE, at[2])
  ELSE LET mid == (lo + hi) \div 2
           first == Walk(f, at, parts, lo, mid)
       IN IF Len(first) # 2 THEN first ELSE Walk(f, first, parts, mid + 1, hi)

\* The inode the kernel resolves a path to, symbolic links followed (as
\* stat, open and listdir do), or None: an absolute path is walked from the
\* directory above the top one, a relative path from the working directory,
\* the empty path names nothing.  The directory above the top one is no
\* inode of the filesystem.
Resolve(f, p) ==
  IF p.parts = << >> THEN None
  ELSE LET end == Walk(f, <<IF p.abs THEN -2 ELSE 0, MAXSYMLINKS>>,
                       p.parts, 1, Len(p.parts))
       IN IF Len(end) # 2 THEN None
          ELSE IF end[1] = -2 THEN None ELSE Some(end[1])

\* os.path.exists, os.path.isdir, os.path.isfile
Exists(f, p) == Resolve(f, p) # None

IsDir(f, p) == Resolve(f, p) # None /\ f[Resolve(f, p)[1]].kind = "dir"

IsFile(f, p) == Resolve(f, p) # None /\ f[Resolve(f, p)[1]].kind = "file"

\* os.listdir(path): "ok", "denied" (PermissionError: the directory cannot
\* be read, or a directory on the way to it cannot be searched) or
\* "oserror" (any other OSError).
ListDirOutcome(f, p) ==
  IF IsDir(f, p) THEN f[Resolve(f, p)[1]].listing
  ELSE IF p.parts = << >> THEN "oserror"
  ELSE IF Walk(f, <<IF p.abs THEN -2 ELSE 0, MAXSYMLINKS>>,
               p.parts, 1, Len(p.parts)) = <<"EACCES">>
       THEN "denied"
  ELSE "oserror"

\* open(path): "ok", "error" (an OSError is raised) or "blocks" (a FIFO
\* no process writes to).
OpenOutcome(f, p) ==
  IF Resolve(f, p) = None THEN "error"
  ELSE LET k == f[Resolve(f, p)[1]].kind
       IN IF k = "file" THEN "ok" ELSE IF k = "fifo" THEN "blocks" ELSE "error"

\* stat.filemode(os.stat(path).st_mode)
FileMode(ino) ==
  IF ino.kind = "dir"
  THEN (IF ino.listing = "denied" THEN "d---------" ELSE "drwxr-xr-x")
  ELSE IF ino.kind = "file" THEN "-rw-r--r--"
  ELSE IF ino.kind = "fifo" THEN "prw-r--r--"
  ELSE "srwxr-xr-x"

(* ------------------------- get_file_extension -------------------------- *)

\* str.rfind, 1-based: the last position of ch in s, 0 when there is none.
RFind(s, ch) ==
  LET hits == {j \in 1 .. Len(s) : s[j] = ch}
  IN IF hits = {} THEN 0 ELSE CHOOSE j \in hits : \A h \in hits : h <= j

\* os.path.splitext(name): <<root, extension with its dot>>.  The last dot
\* starts an extension only when a character other than a dot lies between
\* the last separator and it.
SplitExt(s) ==
  LET sepIndex == RFind(s, "/")
      dotIndex == RFind(s, ".")
  IN IF dotIndex > sepIndex
        /\ \E j \in (sepIndex + 1) .. (dotIndex - 1) : s[j] # "."
     THEN <<SubSeq(s, 1, dotIndex - 1), SubSeq(s, dotIndex, Len(s))>>
     ELSE <<s, << >> >>

GetFileExtension(file_name) ==
  LET extension_with_dot == SplitExt(file_name)[2]
  IN IF extension_with_dot = << >> /\ file_name # << >> /\ Head(file_name) = "."
        /\ file_name # Dot /\ file_name # DotDot
     THEN None
     ELSE IF extension_with_dot # << >>
          THEN Some(Tail(extension_with_dot))
          ELSE None

(* ----------------------- get_file_size_in_bytes ------------------------ *)

\* Variant: the length is asked for without the isfile check.
GetFileSizeInBytesUnchecked(f, p) ==
  IF ~Exists(f, p) THEN None
  ELSE IF "size" \in f[Resolve(f, p)[1]].faults THEN None
  ELSE Some(Len(DataOf(Resolve(f, p)[1])))

GetFileSizeInBytes(f, p) ==
  IF ~Exists(f, p) THEN None
  ELSE IF ~IsFile(f, p) THEN None
  ELSE IF "size" \in f[Resolve(f, p)[1]].faults THEN None
  ELSE Some(Len(DataOf(Resolve(f, p)[1])))

(* ------------------------- read_file_to_string ------------------------- *)

\* The number of bytes of the UTF-8 sequence that starts bytes, 0 when no
\* valid sequence starts there: overlong forms, surrogates, code points
\* above U+10FFFF and truncated sequences are errors of the strict decoder.
Utf8SequenceLen(bytes) ==
  LET IsContinuation(k) == bytes[k] >= 128 /\ bytes[k] <= 191
  IN IF bytes[1] < 128 THEN 1
     ELSE IF bytes[1] >= 194 /\ bytes[1] <= 223
          THEN (IF Len(bytes) >= 2 /\ IsContinuation(2) THEN 2 ELSE 0)
     ELSE IF bytes[1] >= 224 /\ bytes[1] <= 239
          THEN (IF /\ Len(bytes) >= 3
                   /\ IsContinuation(2)
                   /\ IsContinuation(3)
                   /\ (bytes[1] = 224 => bytes[2] >= 160)
                   /\ (bytes[1] = 237 => bytes[2] <= 159)
                THEN 3 ELSE 0)
     ELSE IF bytes[1] >= 240 /\ bytes[1] <= 244
          THEN (IF /\ Len(bytes) >= 4
                   /\ IsContinuation(2)
                   /\ IsContinuation(3)
                   /\ IsContinuation(4)
                   /\ (bytes[1] = 240 => bytes[2] >= 144)
                   /\ (bytes[1] = 244 => bytes[2] <= 143)
                THEN 4 ELSE 0)
     ELSE 0

\* The code point of a valid sequence of n bytes at the head of bytes.
Utf8CodePoint(bytes, n) ==
  IF n = 1 THEN bytes[1]
  ELSE IF n = 2 THEN (bytes[1] - 192) * 64 + (bytes[2] - 128)
  ELSE IF n = 3
       THEN (bytes[1] - 224) * 4096 + (bytes[2] - 128) * 64 + (bytes[3] - 128)
  ELSE (bytes[1] - 240) * 262144 + (bytes[2] - 128) * 4096
       + (bytes[3] - 128) * 64 + (bytes[4] - 128)

\* UTF-8 decoding (errors='strict'): the code points, or None at a byte that
\* starts or continues no valid sequence.
RECURSIVE Utf8Decode(_, _)
Utf8Decode(bytes, acc) ==
  IF bytes = << >> THEN Some(acc)
  ELSE IF Utf8SequenceLen(bytes) = 0 THEN None
  ELSE Utf8Decode(SubSeq(bytes, Utf8SequenceLen(bytes) + 1, Len(bytes)),
                  Append(acc, Utf8CodePoint(bytes, Utf8SequenceLen(bytes))))

\* Text mode's universal newlines: "\r\n" and "\r" are read as "\n".
RECURSIVE Newlines(_)
Newlines(cps) ==
  IF cps = << >> THEN << >>
  ELSE IF cps[1] = 13 /\ Len(cps) >= 2 /\ cps[2] = 10
       THEN <<10>> \o Newlines(SubSeq(cps, 3, Len(cps)))
  ELSE IF cps[1] = 13 THEN <<10>> \o Newlines(Tail(cps))
  ELSE <<cps[1]>> \o Newlines(Tail(cps))

\* What open(path, 'r', encoding='utf-8').read() returns for the bytes.
ReadText(bytes) ==
  IF Utf8Decode(bytes, << >>) = None THEN None
  ELSE Some(Newlines(Utf8Decode(bytes, << >>)[1]))

\* Meaningful when open does not block.  The text is that of the one inode
\* the path leads to.
ReadFileToString(f, p) ==
  IF OpenOutcome(f, p) # "ok" THEN None
  ELSE IF "read" \in f[Resolve(f, p)[1]].faults THEN None
  ELSE CHOOSE text \in {ReadText(DataOf(i)) : i \in {Resolve(f, p)[1]}} : TRUE

(* ----------------------- calculate_file_checksum ----------------------- *)

DefaultHashAlgorithm == "sha256"

DefaultChunkSize == 4096

\* The names hasattr(hashlib, name) accepts: the constructors the module
\* defines and its other attributes.
HashlibAttributes ==
  {"md5", "sha1", "sha256", "sha512", "shake_128", "new", "algorithms_available"}

\* The names hashlib.new accepts (hashlib.algorithms_available); some have
\* no constructor of their name in the module.
HashlibDigests == {"md5", "sha1", "sha256", "sha512", "shake_128", "sha512_224"}

\* The digests whose hexdigest() requires a length argument.
VariableLengthDigests == {"shake_128"}

\* file.read(n) of a binary file at position pos (1-based): Some(bytes),
\* everything left when n = -1, or None when n < -1 (ValueError: read
\* length must be non-negative or -1).
ReadChunk(data, pos, n) ==
  IF n < -1 THEN None
  ELSE IF n = -1 THEN Some(SubSeq(data, pos, Len(data)))
  ELSE Some(SubSeq(data, pos,
                   IF pos + n - 1 < Len(data) THEN pos + n - 1 ELSE Len(data)))

\* The read loop: Some(the bytes fed to the hasher, in order), or None when
\* a read raises.
RECURSIVE FeedChunks(_, _, _, _)
FeedChunks(data, pos, chunk_size, fed) ==
  IF ReadChunk(data, pos, chunk_size) = None THEN None
  ELSE IF ReadChunk(data, pos, chunk_size)[1] = << >> THEN Some(fed)
  ELSE FeedChunks(data, pos + Len(ReadChunk(data, pos, chunk_size)[1]), chunk_size,
                  fed \o ReadChunk(data, pos, chunk_size)[1])

\* hasher.hexdigest(): a digest stands for the algorithm and the bytes fed.
HexDigest(hash_algorithm, fed) == [alg |-> hash_algorithm, of |-> fed]

\* Meaningful when open does not block and hashlib.new accepts the name.
\* The bytes are those of the one inode the path leads to; a read that
\* raises (line 143) and a digest that needs a length (line 138) give None.
CalculateFileChecksum(f, p, hash_algorithm, chunk_size) ==
  IF hash_algorithm \notin HashlibAttributes THEN None
  ELSE IF OpenOutcome(f, p) # "ok" THEN None
  ELSE IF "hash" \in f[Resolve(f, p)[1]].faults THEN None
  ELSE CHOOSE sum \in
         {IF FeedChunks(DataOf(i), 1, chunk_size, << >>) = None THEN None
          ELSE IF hash_algorithm \in VariableLengthDigests THEN None
          ELSE Some(HexDigest(hash_algorithm,
                              FeedChunks(DataOf(i), 1, chunk_size, << >>)[1]))
          : i \in {Resolve(f, p)[1]}} : TRUE

(* --------------------------- get_folder_tree --------------------------- *)

PermissionSentinel == "Permission denied or error"

InaccessiblePermissions == "d????????? (Permission Denied)"

\* Variant: one failing query of an entry spoils its permissions too.
GetPermissionsAnyFault(f, item_path) ==
  IF Resolve(f, item_path) = None THEN PermissionSentinel
  ELSE IF f[Resolve(f, item_path)[1]].faults # {} THEN PermissionSentinel
  ELSE FileMode(f[Resolve(f, item_path)[1]])

GetPermissions(f, item_path) ==
  IF Resolve(f, item_path) = None THEN PermissionSentinel
  ELSE IF "stat" \in f[Resolve(f, item_path)[1]].faults THEN PermissionSentinel
  ELSE FileMode(f[Resolve(f, item_path)[1]])

\* Variant: the path relative to the directory being listed.
RelativePathToParent(current_dir_path, base_path, item_name) ==
  RelPath(Join(current_dir_path, item_name), current_dir_path)

\* Lines 203-206: the entry's path relative to the scan root.
RelativePath(current_dir_path, base_path, item_name) ==
  IF current_dir_path = base_path
  THEN [abs |-> FALSE, parts |-> <<item_name>>]
  ELSE RelPath(Join(current_dir_path, item_name), base_path)

\* Lines 225-232: the type of an entry.
TypeOf(f, full_path) ==
  IF IsDir(f, full_path) THEN "directory"
  ELSE IF IsFile(f, full_path) THEN "file"
  ELSE "other"

\* Lines 200-232: the descriptor of entry item_name of current_dir_path.
Node(f, current_dir_path, base_path, item_name) ==
  LET full_path == Join(current_dir_path, item_name)
  IN [name |-> item_name,
      full_path |-> full_path,
      relative_path |-> RelativePath(current_dir_path, base_path, item_name),
      permissions |-> GetPermissions(f, full_path),
      checksum |-> CalculateFileChecksum(f, full_path, DefaultHashAlgorithm,
                                         DefaultChunkSize),
      size |-> GetFileSizeInBytes(f, full_path),
      extension |-> GetFileExtension(item_name),
      content |-> ReadFileToString(f, full_path),
      type |-> TypeOf(f, full_path)]

\* Lines 238-247: the marker of a directory whose listing is denied.
InaccessibleNode(current_dir_path, base_path) ==
  [name |-> BaseName(current_dir_path),
   full_path |-> current_dir_path,
   relative_path |-> IF current_dir_path # base_path
                     THEN RelPath(current_dir_path, base_path)
                     ELSE [abs |-> FALSE, parts |-> <<BaseName(current_dir_path)>>],
   permissions |-> InaccessiblePermissions,
   type |-> "directory_inaccessible",
   children |-> << >>]

(* ------------------------------- state --------------------------------- *)

VARIABLES
  fs,                \* the filesystem: inode number -> inode
  root_folder_path,  \* the argument of the call, None before the call
  status,            \* "idle", "running", "blocked" or "returned"
  base_path,         \* abs_root_path, None before the root is validated
  stack,             \* the activations of _build_tree_recursive, innermost last
  tree_nodes,        \* the list shared by all activations
  result,            \* what get_folder_tree returned: None or Some(list)
  listed,            \* the paths os.listdir was called on
  opened,            \* the paths open was called on
  call,              \* a direct call of one helper: None or Some(the call)
  outcome,           \* how that call ended: None or Some(the outcome)
  handles,           \* the file objects that are open
  query,             \* where the queries of one entry are: None or Some([path, at])
  list_id,           \* the identity of the list object tree_nodes refers to
  earlier,           \* the lists earlier calls returned, as the caller holds them
  removed            \* the entries other processes removed during the scan

vars ==
  <<fs, root_folder_path, status, base_path, stack, tree_nodes, result,
    listed, opened, call, outcome, handles, query, list_id, earlier, removed>>

\* What a scan reads and writes, and what a direct call of a helper does.
scan_vars ==
  <<root_folder_path, status, base_path, stack, tree_nodes, result, listed>>

helper_vars == <<call, outcome>>

\* What the steps inside one entry, the caller between two calls and the
\* other processes write.
other_vars == <<handles, query, earlier, removed>>

\* The arguments a caller passes: the working directory, the name of its
\* first entry (of any kind), a name that does not exist.
Arguments ==
  {[abs |-> FALSE, parts |-> <<n>>] : n \in {Dot, MissingName, NameOf(1)}}

\* One activation of _build_tree_recursive: the directory, where it is
\* ("list": before os.listdir, "loop": in the for loop, "done": after the
\* try statement), the names the loop has not reached yet, and the
\* descriptor of the entry whose recursive call is running.
Frame(path) == [path |-> path, phase |-> "list", items |-> << >>, node |-> None]

Top == stack[Len(stack)]

SetTop(fr) == [stack EXCEPT ![Len(stack)] = fr]

Init ==
  /\ fs \in Filesystems
  /\ root_folder_path = None
  /\ status = "idle"
  /\ base_path = None
  /\ stack = << >>
  /\ tree_nodes = << >>
  /\ result = None
  /\ listed = {}
  /\ opened = {}
  /\ call = None
  /\ outcome = None
  /\ handles = {}
  /\ query = None
  /\ list_id = 0
  /\ earlier = << >>
  /\ removed = {}

(* ------------------------------ actions -------------------------------- *)

\* Lines 173-180: the root does not exist or is not a directory.
RejectRoot ==
  /\ status = "idle"
  /\ \E arg \in Arguments :
       /\ ~(Exists(fs, AbsPath(arg)) /\ IsDir(fs, AbsPath(arg)))
       /\ root_folder_path' = Some(arg)
  /\ status' = "returned"
  /\ result' = None
  /\ UNCHANGED <<fs, base_path, stack, tree_nodes, listed, opened>>
  /\ UNCHANGED <<helper_vars, other_vars, list_id>>

\* Variant: the isdir check of the root is missing.
EnterRootUnchecked ==
  /\ status = "idle"
  /\ \E arg \in Arguments :
       /\ Exists(fs, AbsPath(arg))
       /\ root_folder_path' = Some(arg)
       /\ base_path' = Some(AbsPath(arg))
       /\ stack' = <<Frame(AbsPath(arg))>>
  /\ status' = "running"
  /\ tree_nodes' = << >>
  /\ list_id' = list_id + 1
  /\ UNCHANGED <<fs, result, listed, opened>>
  /\ UNCHANGED <<helper_vars, other_vars>>

\* Variant: the list is a default argument value, created once and used by
\* every call.
EnterRootSharedList ==
  /\ status = "idle"
  /\ \E arg \in Arguments :
       /\ Exists(fs, AbsPath(arg))
       /\ IsDir(fs, AbsPath(arg))
       /\ root_folder_path' = Some(arg)
       /\ base_path' = Some(AbsPath(arg))
       /\ stack' = <<Frame(AbsPath(arg))>>
  /\ status' = "running"
  /\ UNCHANGED <<tree_nodes, list_id>>
  /\ UNCHANGED <<fs, result, listed, opened>>
  /\ UNCHANGED <<helper_vars, other_vars>>

\* Lines 173-180, 257 and 196-197: the root is a directory, the first
\* activation gets no list and creates a new one.
EnterRoot ==
  /\ status = "idle"
  /\ \E arg \in Arguments :
       /\ Exists(fs, AbsPath(arg))
       /\ IsDir(fs, AbsPath(arg))
       /\ root_folder_path' = Some(arg)
       /\ base_path' = Some(AbsPath(arg))
       /\ stack' = <<Frame(AbsPath(arg))>>
  /\ status' = "running"
  /\ tree_nodes' = << >>
  /\ list_id' = list_id + 1
  /\ UNCHANGED <<fs, result, listed, opened>>
  /\ UNCHANGED <<helper_vars, other_vars>>

\* Line 199: os.listdir returns the names.
ListDirOk ==
  /\ status = "running"
  /\ Top.phase = "list"
  /\ ListDirOutcome(fs, Top.path) = "ok"
  /\ stack' = SetTop([Top EXCEPT !.phase = "loop",
                                 !.items = Names(fs, Resolve(fs, Top.path)[1])])
  /\ listed' = listed \cup {Top.path}
  /\ UNCHANGED <<fs, root_folder_path, status, base_path, tree_nodes, result,
                 opened>>
  /\ UNCHANGED <<helper_vars, other_vars, list_id>>

\* Variant: a denied listing leaves no marker.
ListDirDeniedSilent ==
  /\ status = "running"
  /\ Top.phase = "list"
  /\ ListDirOutcome(fs, Top.path) = "denied"
  /\ stack' = SetTop([Top EXCEPT !.phase = "done"])
  /\ listed' = listed \cup {Top.path}
  /\ UNCHANGED <<fs, root_folder_path, status, base_path, tree_nodes, result,
                 opened>>
  /\ UNCHANGED <<helper_vars, other_vars, list_id>>

\* Lines 235-247: os.listdir raises PermissionError.
ListDirDenied ==
  /\ status = "running"
  /\ Top.phase = "list"
  /\ ListDirOutcome(fs, Top.path) = "denied"
  /\ tree_nodes' = Append(tree_nodes, InaccessibleNode(Top.path, base_path[1]))
  /\ stack' = SetTop([Top EXCEPT !.phase = "done"])
  /\ listed' = listed \cup {Top.path}
  /\ UNCHANGED <<fs, root_folder_path, status, base_path, result, opened>>
  /\ UNCHANGED <<helper_vars, other_vars, list_id>>

\* Variant: every failed listing leaves the marker of a denied one.
ListDirOSErrorMarks ==
  /\ status = "running"
  /\ Top.phase = "list"
  /\ ListDirOutcome(fs, Top.path) = "oserror"
  /\ tree_nodes' = Append(tree_nodes, InaccessibleNode(Top.path, base_path[1]))
  /\ stack' = SetTop([Top EXCEPT !.phase = "done"])
  /\ listed' = listed \cup {Top.path}
  /\ UNCHANGED <<fs, root_folder_path, status, base_path, result, opened>>
  /\ UNCHANGED <<helper_vars, other_vars, list_id>>

\* Lines 248-249: os.listdir raises another OSError.
ListDirOSError ==
  /\ status = "running"
  /\ Top.phase = "list"
  /\ ListDirOutcome(fs, Top.path) = "oserror"
  /\ stack' = SetTop([Top EXCEPT !.phase = "done"])
  /\ listed' = listed \cup {Top.path}
  /\ UNCHANGED <<fs, root_folder_path, status, base_path, tree_nodes, result,
                 opened>>
  /\ UNCHANGED <<helper_vars, other_vars, list_id>>

\* Lines 200-209: the entry is a FIFO without a writer; open blocks in
\* calculate_file_checksum.
VisitBlocks ==
  /\ status = "running"
  /\ Top.phase = "loop"
  /\ Top.items # << >>
  /\ OpenOutcome(fs, Join(Top.path, Head(Top.items))) = "blocks"
  /\ status' = "blocked"
  /\ opened' = opened \cup {Join(Top.path, Head(Top.items))}
  /\ UNCHANGED <<fs, root_folder_path, base_path, stack, tree_nodes, result,
                 listed>>
  /\ UNCHANGED <<helper_vars, other_vars, list_id>>

\* Variant: the directory's descriptor is appended before the recursive call
\* as well.
VisitDirectoryAppendFirst ==
  /\ status = "running"
  /\ Top.phase = "loop"
  /\ Top.items # << >>
  /\ OpenOutcome(fs, Join(Top.path, Head(Top.items))) # "blocks"
  /\ IsDir(fs, Join(Top.path, Head(Top.items)))
  /\ tree_nodes' = Append(tree_nodes,
                          Node(fs, Top.path, base_path[1], Head(Top.items)))
  /\ stack' = Append(SetTop([Top EXCEPT !.node =
                               Some(Node(fs, Top.path, base_path[1], Head(Top.items)))]),
                     Frame(Join(Top.path, Head(Top.items))))
  /\ opened' = opened \cup {Join(Top.path, Head(Top.items))}
  /\ UNCHANGED <<fs, root_folder_path, status, base_path, result, listed>>
  /\ UNCHANGED <<helper_vars, other_vars, list_id>>

\* Lines 200-228: the entry is a directory; its descriptor is built and the
\* recursive call starts.
VisitDirectory ==
  /\ status = "running"
  /\ Top.phase = "loop"
  /\ Top.items # << >>
  /\ OpenOutcome(fs, Join(Top.path, Head(Top.items))) # "blocks"
  /\ IsDir(fs, Join(Top.path, Head(Top.items)))
  /\ stack' = Append(SetTop([Top EXCEPT !.node =
                               Some(Node(fs, Top.path, base_path[1], Head(Top.items)))]),
                     Frame(Join(Top.path, Head(Top.items))))
  /\ opened' = opened \cup {Join(Top.path, Head(Top.items))}
  /\ UNCHANGED <<fs, root_folder_path, status, base_path, tree_nodes, result,
                 listed>>
  /\ UNCHANGED <<helper_vars, other_vars, list_id>>

\* Variant: only regular files are appended.
VisitLeafFilesOnly ==
  /\ status = "running"
  /\ Top.phase = "loop"
  /\ Top.items # << >>
  /\ OpenOutcome(fs, Join(Top.path, Head(Top.items))) # "blocks"
  /\ ~IsDir(fs, Join(Top.path, Head(Top.items)))
  /\ tree_nodes' = IF IsFile(fs, Join(Top.path, Head(Top.items)))
                   THEN Append(tree_nodes,
                               Node(fs, Top.path, base_path[1], Head(Top.items)))
                   ELSE tree_nodes
  /\ stack' = SetTop([Top EXCEPT !.items = Tail(Top.items)])
  /\ opened' = opened \cup {Join(Top.path, Head(Top.items))}
  /\ UNCHANGED <<fs, root_folder_path, status, base_path, result, listed>>
  /\ UNCHANGED <<helper_vars, other_vars, list_id>>

\* Lines 200-234: the entry is a file or something else; its descriptor is
\* built and appended.
VisitLeaf ==
  /\ status = "running"
  /\ Top.phase = "loop"
  /\ Top.items # << >>
  /\ OpenOutcome(fs, Join(Top.path, Head(Top.items))) # "blocks"
  /\ ~IsDir(fs, Join(Top.path, Head(Top.items)))
  /\ tree_nodes' = Append(tree_nodes,
                          Node(fs, Top.path, base_path[1], Head(Top.items)))
  /\ stack' = SetTop([Top EXCEPT !.items = Tail(Top.items)])
  /\ opened' = opened \cup {Join(Top.path, Head(Top.items))}
  /\ UNCHANGED <<fs, root_folder_path, status, base_path, result, listed>>
  /\ UNCHANGED <<helper_vars, other_vars, list_id>>

\* The activation on top is at line 251.
Returning ==
  /\ status = "running"
  /\ \/ Top.phase = "done"
     \/ Top.phase = "loop" /\ Top.items = << >>

\* Variant: the directory's descriptor is put at the head of the list.
ReturnToParentPrepends ==
  /\ Returning
  /\ Len(stack) > 1
  /\ LET parent == stack[Len(stack) - 1]
     IN /\ tree_nodes' = <<parent.node[1]>> \o tree_nodes
        /\ stack' = Append(SubSeq(stack, 1, Len(stack) - 2),
                           [parent EXCEPT !.items = Tail(parent.items),
                                          !.node = None])
  /\ UNCHANGED <<fs, root_folder_path, status, base_path, result, listed, opened>>
  /\ UNCHANGED <<helper_vars, other_vars, list_id>>

\* Lines 251 and 234: a recursive call returns; the caller appends the
\* directory's descriptor and goes on to the next name.
ReturnToParent ==
  /\ Returning
  /\ Len(stack) > 1
  /\ LET parent == stack[Len(stack) - 1]
     IN /\ tree_nodes' = Append(tree_nodes, parent.node[1])
        /\ stack' = Append(SubSeq(stack, 1, Len(stack) - 2),
                           [parent EXCEPT !.items = Tail(parent.items),
                                          !.node = None])
  /\ UNCHANGED <<fs, root_folder_path, status, base_path, result, listed, opened>>
  /\ UNCHANGED <<helper_vars, other_vars, list_id>>

\* Lines 251 and 257: the first activation returns the list to the caller.
ReturnToCaller ==
  /\ Returning
  /\ Len(stack) = 1
  /\ stack' = << >>
  /\ result' = Some(tree_nodes)
  /\ status' = "returned"
  /\ UNCHANGED <<fs, root_folder_path, base_path, tree_nodes, listed, opened>>
  /\ UNCHANGED <<helper_vars, other_vars, list_id>>

Next ==
  \/ RejectRoot
  \/ EnterRoot
  \/ ListDirOk
  \/ ListDirDenied
  \/ ListDirOSError
  \/ VisitBlocks
  \/ VisitDirectory
  \/ VisitLeaf
  \/ ReturnToParent
  \/ ReturnToCaller

Spec == Init /\ [][Next]_vars

(* ------------------------- reading the result -------------------------- *)

\* get_folder_tree has returned a list.
ReturnedList == status = "returned" /\ result # None

\* Path p lies strictly below path d.
IsBelow(p, d) ==
  /\ Len(p.parts) > Len(d.parts)
  /\ SubSeq(p.parts, 1, Len(d.parts)) = d.parts

\* os.path.dirname(path)
DirName(p) == [abs |-> p.abs, parts |-> SubSeq(p.parts, 1, Len(p.parts) - 1)]

\* The positions of the descriptors of path p in a list.
PositionsOf(list, p) == {k \in 1 .. Len(list) : list[k].full_path = p}

\* The subdirectories of the scan root whose listing was denied.
DeniedSubdirectories ==
  {d \in listed : d # base_path[1] /\ ListDirOutcome(fs, d) = "denied"}

\* The siblings that follow path d in the listing of its directory.
LaterSiblings(d) ==
  LET names == Names(fs, Resolve(fs, DirName(d))[1])
      at == CHOOSE j \in 1 .. Len(names) : names[j] = BaseName(d)
  IN {Join(DirName(d), names[j]) : j \in (at + 1) .. Len(names)}

(* ------------------------------- claims -------------------------------- *)

\* C1 (as stated): when listing a subdirectory D of the scanned tree is
\* denied, the returned list holds exactly one descriptor with full_path D,
\* it has type directory_inaccessible, no descriptor lies below D, and every
\* later sibling of D has a descriptor.
C1_DeniedDirectoryOnce ==
  ReturnedList =>
    \A d \in DeniedSubdirectories :
      /\ Cardinality(PositionsOf(result[1], d)) = 1
      /\ \A k \in PositionsOf(result[1], d) :
           result[1][k].type = "directory_inaccessible"
      /\ \A k \in 1 .. Len(result[1]) : ~IsBelow(result[1][k].full_path, d)
      /\ \A sib \in LaterSiblings(d) : PositionsOf(result[1], sib) # {}

\* C2 (as stated): no two descriptors of a returned list have the same
\* full_path.
C2_NoDuplicatePaths ==
  ReturnedList =>
    \A j, k \in 1 .. Len(result[1]) :
      result[1][j].full_path = result[1][k].full_path => j = k

\* C3 (as stated): the returned list is in pre-order, a directory's
\* descriptor comes before the descriptor of every entry below it.
C3_PreOrder ==
  ReturnedList =>
    \A j, k \in 1 .. Len(result[1]) :
      IsBelow(result[1][k].full_path, result[1][j].full_path) => j < k

\* C3 (amended): the returned list is in post-order, every descriptor of a
\* directory comes after the descriptor of every entry below it.
C3_PostOrder ==
  ReturnedList =>
    \A j, k \in 1 .. Len(result[1]) :
      IsBelow(result[1][k].full_path, result[1][j].full_path) => k < j

\* A returned list that holds a directory and an entry two levels below it.
C3_Witness ==
  /\ ReturnedList
  /\ \E j, k \in 1 .. Len(result[1]) :
       /\ result[1][j].type = "directory"
       /\ IsBelow(result[1][k].full_path, result[1][j].full_path)
       /\ Len(result[1][k].full_path.parts) = Len(result[1][j].full_path.parts) + 2

\* The directory entry a path names, its last component not followed (as
\* lstat sees it): Some(inode) or None.
EntryInode(f, p) ==
  IF p.parts = << >> THEN None
  ELSE IF BaseName(p) \in {Dot, DotDot, << >>} THEN Resolve(f, p)
  ELSE LET dir == Walk(f, <<IF p.abs THEN -2 ELSE 0, MAXSYMLINKS>>,
                       p.parts, 1, Len(p.parts) - 1)
           c == Child(f, dir[1], BaseName(p))
       IN IF Len(dir) # 2 THEN None
          ELSE IF dir[1] = -2 THEN (IF BaseName(p) = TopName THEN Some(0) ELSE None)
          ELSE IF f[dir[1]].kind # "dir" \/ f[dir[1]].listing = "denied" THEN None
          ELSE IF c = {} THEN None ELSE Some(CHOOSE i \in c : TRUE)

IsLink(f, p) ==
  EntryInode(f, p) # None /\ f[EntryInode(f, p)[1]].kind = "symlink"

\* The names directory d holds, as a set.
NameSet(f, p) ==
  {NameOf(i) : i \in {j \in DOMAIN f : j > 0 /\ f[j].parent = Resolve(f, p)[1]}}

\* Every path below directory d that a walk following the directories can
\* name, at any depth.
RECURSIVE EntriesBelow(_, _)
EntriesBelow(f, d) ==
  IF ~IsDir(f, d) THEN {}
  ELSE UNION { {Join(d, n)} \cup EntriesBelow(f, Join(d, n)) : n \in NameSet(f, d) }

\* The scan root and every directory among the paths below it can be listed.
AllListable(below) ==
  \A d \in {base_path[1]} \cup below :
    IsDir(fs, d) => ListDirOutcome(fs, d) = "ok"

\* C4: when every directory can be listed, the returned list holds exactly
\* one descriptor for each entry below the root, at any depth, and none for
\* the root; an empty root gives the empty list, not None.
C4_OneDescriptorPerEntry ==
  ReturnedList =>
    LET below == EntriesBelow(fs, base_path[1])
        paths == [k \in 1 .. Len(result[1]) |-> result[1][k].full_path]
    IN AllListable(below) =>
         /\ \A p \in below : Cardinality({k \in DOMAIN paths : paths[k] = p}) = 1
         /\ \A k \in DOMAIN paths : paths[k] \in below
         /\ \A k \in DOMAIN paths : paths[k] # base_path[1]
         /\ Len(result[1]) = Cardinality(below)
         /\ (NameSet(fs, base_path[1]) = {} => result = Some(<< >>))

\* A full walk of a root that holds an entry two levels down.
C4_Witness ==
  /\ ReturnedList
  /\ AllListable(EntriesBelow(fs, base_path[1]))
  /\ Len(result[1]) >= 3
  /\ \E k \in 1 .. Len(result[1]) :
       Len(result[1][k].full_path.parts) >= Len(base_path[1].parts) + 2

\* C5 (as stated): a scan that has started returns; it is never left at a
\* point from which no step leads on.
C5_ScanReturns ==
  (status # "idle" /\ status # "returned") => ENABLED Next

\* C6 (as stated): every symbolic link gets a descriptor of type other, and
\* no descriptor's path passes through a symbolic link.
C6_LinksNotFollowed ==
  ReturnedList =>
    \A k \in 1 .. Len(result[1]) :
      /\ IsLink(fs, result[1][k].full_path) => result[1][k].type = "other"
      /\ \A n \in (Len(base_path[1].parts) + 1) ..
                    (Len(result[1][k].full_path.parts) - 1) :
           ~IsLink(fs, [abs |-> TRUE,
                        parts |-> SubSeq(result[1][k].full_path.parts, 1, n)])

\* The filesystem with the failing queries of every inode but i removed.
OnlyFaultsOf(f, i) ==
  [j \in DOMAIN f |-> IF j = i THEN f[j] ELSE [f[j] EXCEPT !.faults = {}]]

\* The directories whose listing succeeded.
ListedOk == {d \in listed : ListDirOutcome(fs, d) = "ok"}

\* What C7 asks of the descriptor e of the entry at path p, inode i.
FieldsFollowFaults(e, i) ==
  LET q == fs[i].faults
      regular == fs[i].kind = "file"
  IN /\ "stat" \in q => e.permissions = PermissionSentinel
     /\ ("stat" \notin q /\ regular) => e.permissions = "-rw-r--r--"
     /\ "hash" \in q => e.checksum = None
     /\ ("hash" \notin q /\ regular) =>
          e.checksum = Some([alg |-> "sha256", of |-> DataOf(i)])
     /\ "read" \in q => e.content = None
     /\ ("read" \notin q /\ regular) => e.content = ReadText(DataOf(i))
     /\ "size" \in q => e.size = None
     /\ ("size" \notin q /\ regular) => e.size = Some(Len(DataOf(i)))

\* C7: every entry of a listed directory gets one descriptor, whichever of
\* its permission, checksum, content and size queries fail: a failed field is
\* None (permissions: the sentinel), the others are as computed, every
\* sibling is processed, and the failures of other entries change nothing
\* in it.
C7_FieldFailuresStayLocal ==
  ReturnedList =>
    \A d \in ListedOk : \A n \in NameSet(fs, d) :
      LET p == Join(d, n)
          pos == {k \in PositionsOf(result[1], p) :
                    result[1][k].type # "directory_inaccessible"}
      IN /\ Cardinality(pos) = 1
         /\ \A k \in pos :
              /\ Resolve(fs, p) # None =>
                   /\ FieldsFollowFaults(result[1][k], Resolve(fs, p)[1])
                   /\ result[1][k] =
                        Node(OnlyFaultsOf(fs, Resolve(fs, p)[1]), d, base_path[1], n)
              /\ result[1][k].name = n

\* A returned list for a directory whose first file fails all four queries
\* and is followed by a file that fails none.
C7_Witness ==
  /\ ReturnedList
  /\ \E i, j \in DOMAIN fs :
       /\ 0 < i /\ i < j
       /\ fs[i].parent = fs[j].parent
       /\ fs[i].faults = Faults
       /\ fs[j].kind = "file" /\ fs[j].faults = {}
       /\ \E k \in 1 .. Len(result[1]) :
            result[1][k].name = NameOf(j) /\ result[1][k].size # None

\* C8: get_folder_tree returns None exactly when the resolved root does not
\* exist or is not a directory, and then it has listed no directory and
\* opened no file; a root that is a directory gives a list even when the
\* root itself cannot be listed.
C8_NoneIffRootInvalid ==
  status = "returned" =>
    /\ result = None <=>
         ~(Exists(fs, AbsPath(root_folder_path[1]))
           /\ IsDir(fs, AbsPath(root_folder_path[1])))
    /\ result = None => (listed = {} /\ opened = {})

\* The call returned None for a root that is a regular file.
C8_Witness ==
  /\ status = "returned"
  /\ result = None
  /\ IsFile(fs, AbsPath(root_folder_path[1]))

\* C9: for every descriptor of an entry below the scan root, relative_path
\* is the relative path of the names leading from the scan root to the
\* entry (the name alone at the top level), and full_path is the absolute
\* scan root joined with it.
C9_RelativeToScanRoot ==
  ReturnedList =>
    \A k \in 1 .. Len(result[1]) :
      IsBelow(result[1][k].full_path, base_path[1]) =>
        LET e == result[1][k]
            depth == Len(base_path[1].parts)
        IN /\ e.relative_path.abs = FALSE
           /\ e.relative_path.parts =
                SubSeq(e.full_path.parts, depth + 1, Len(e.full_path.parts))
           /\ e.relative_path.parts[Len(e.relative_path.parts)] = e.name
           /\ (Len(e.full_path.parts) = depth + 1 =>
                 e.relative_path.parts = <<e.name>>)
           /\ e.full_path.abs = TRUE
           /\ e.full_path.parts = base_path[1].parts \o e.relative_path.parts
           /\ e.relative_path # e.full_path

\* A returned list with a descriptor two levels below the scan root.
C9_Witness ==
  /\ ReturnedList
  /\ \E k \in 1 .. Len(result[1]) :
       Len(result[1][k].full_path.parts) = Len(base_path[1].parts) + 2

\* C10 (as stated): every descriptor of type directory has size, checksum,
\* extension and content all None.
C10_DirectoryFieldsNone ==
  ReturnedList =>
    \A k \in 1 .. Len(result[1]) :
      result[1][k].type = "directory" =>
        /\ result[1][k].size = None
        /\ result[1][k].checksum = None
        /\ result[1][k].extension = None
        /\ result[1][k].content = None

(* ---------------------- direct calls of the helpers -------------------- *)

\* Longest name passed to get_file_extension.
MaxNameLen == 4

\* A Python value passed as an argument: its type and, for a str, its
\* characters (for another type, the characters of its repr).
PyStr(s) == [type |-> "str", value |-> s]

NonStrings ==
  {[type |-> "int", value |-> <<"5">>],
   [type |-> "NoneType", value |-> <<"N", "o", "n", "e">>],
   [type |-> "list", value |-> <<"[", "]">>]}

\* The strings of at most n characters over an alphabet.
Strings(chars, n) == UNION {[1 .. k -> chars] : k \in 0 .. n}

\* A call that returned a value, and a call that raised an exception.
Returned(v) == [kind |-> "returned", value |-> v]

Raised(exception) == [kind |-> "raised", exception |-> exception]

\* The call has been made by the caller and has not ended yet.
Pending(op) == call # None /\ outcome = None /\ call[1].op = op

\* The call of op has ended.
Ended(op) == call # None /\ outcome # None /\ call[1].op = op

\* get_file_extension(file_name), file_name being any value.
ExtensionCalls ==
  {[op |-> "get_file_extension", file_name |-> v] :
     v \in {PyStr(s) : s \in Strings({".", "a", "B"}, MaxNameLen)} \cup NonStrings}

\* Lines 18-19: the argument is not a str.
GetFileExtensionRaises ==
  /\ Pending("get_file_extension")
  /\ call[1].file_name.type # "str"
  /\ outcome' = Some(Raised("TypeError: Input must be a string."))
  /\ UNCHANGED <<fs, scan_vars, opened, call>>
  /\ UNCHANGED <<other_vars, list_id>>

\* Lines 18-44: the argument is a str.
GetFileExtensionReturns ==
  /\ Pending("get_file_extension")
  /\ call[1].file_name.type = "str"
  /\ outcome' = Some(Returned(GetFileExtension(call[1].file_name.value)))
  /\ UNCHANGED <<fs, scan_vars, opened, call>>
  /\ UNCHANGED <<other_vars, list_id>>

\* Largest chunk_size tried besides the default, -1 and -2.
MaxChunkSize == 3

\* A directory whose entries are all of one kind, with the same failing
\* queries; entry i holds DataOf(i) when it is a regular file.  Queries
\* fail on regular files only.
FlatFs(kind, faults) ==
  [i \in 0 .. Len(NameTable) |->
     IF i = 0 THEN Inode("dir", 0, None, "ok", {})
     ELSE Inode(kind, 0, None, "ok", faults)]

HelperFilesystems ==
  {FlatFs(k, {}) : k \in {"file", "dir", "fifo"}} \cup {FlatFs("file", Faults)}

\* The paths passed to the helpers: every entry of the working directory
\* and a name it does not hold.
HelperPaths ==
  {[abs |-> FALSE, parts |-> <<n>>] :
     n \in {NameOf(i) : i \in 1 .. Len(NameTable)} \cup {MissingName}}

AlgorithmNames == HashlibAttributes \cup HashlibDigests \cup {"crc32"}

ChunkSizes == {-2, -1} \cup (0 .. MaxChunkSize) \cup {DefaultChunkSize}

\* calculate_file_checksum(file_path, hash_algorithm, chunk_size)
ChecksumCalls ==
  {[op |-> "calculate_file_checksum", file_path |-> p, hash_algorithm |-> a,
    chunk_size |-> c] : p \in HelperPaths, a \in AlgorithmNames, c \in ChunkSizes}

\* Lines 118-122: hashlib has no attribute of that name.
CalculateFileChecksumUnsupported ==
  /\ Pending("calculate_file_checksum")
  /\ call[1].hash_algorithm \notin HashlibAttributes
  /\ outcome' = Some(Returned(None))
  /\ UNCHANGED <<fs, scan_vars, opened, call>>
  /\ UNCHANGED <<other_vars, list_id>>

\* Line 125: hashlib has the attribute, hashlib.new does not know the name;
\* the call is outside the try statement.
CalculateFileChecksumNewRaises ==
  /\ Pending("calculate_file_checksum")
  /\ call[1].hash_algorithm \in HashlibAttributes \ HashlibDigests
  /\ outcome' = Some(Raised("ValueError: unsupported hash type"))
  /\ UNCHANGED <<fs, scan_vars, opened, call>>
  /\ UNCHANGED <<other_vars, list_id>>

\* Line 129: the path is a FIFO without a writer, open does not return.
CalculateFileChecksumBlocks ==
  /\ Pending("calculate_file_checksum")
  /\ call[1].hash_algorithm \in HashlibAttributes \cap HashlibDigests
  /\ OpenOutcome(fs, call[1].file_path) = "blocks"
  /\ outcome' = Some([kind |-> "blocked"])
  /\ opened' = opened \cup {call[1].file_path}
  /\ UNCHANGED <<fs, scan_vars, call>>
  /\ UNCHANGED <<other_vars, list_id>>

\* Lines 125-145: the file is opened and read, or an exception is caught.
CalculateFileChecksumReturns ==
  /\ Pending("calculate_file_checksum")
  /\ call[1].hash_algorithm \in HashlibAttributes \cap HashlibDigests
  /\ OpenOutcome(fs, call[1].file_path) # "blocks"
  /\ outcome' = Some(Returned(CalculateFileChecksum(fs, call[1].file_path,
                                                    call[1].hash_algorithm,
                                                    call[1].chunk_size)))
  /\ opened' = opened \cup {call[1].file_path}
  /\ UNCHANGED <<fs, scan_vars, call>>
  /\ UNCHANGED <<other_vars, list_id>>

\* Longest text written and read back.
MaxTextLen == 3

\* str.encode('utf-8') of one code point that is not a surrogate.
Utf8Bytes(cp) ==
  IF cp < 128 THEN <<cp>>
  ELSE IF cp < 2048 THEN <<192 + (cp \div 64), 128 + (cp % 64)>>
  ELSE IF cp < 65536
       THEN <<224 + (cp \div 4096), 128 + ((cp \div 64) % 64), 128 + (cp % 64)>>
  ELSE <<240 + (cp \div 262144), 128 + ((cp \div 4096) % 64),
         128 + ((cp \div 64) % 64), 128 + (cp % 64)>>

\* str.encode('utf-8')
RECURSIVE Utf8Encode(_)
Utf8Encode(cps) ==
  IF cps = << >> THEN << >> ELSE Utf8Bytes(cps[1]) \o Utf8Encode(Tail(cps))

\* The code points of the texts: a letter, "\n", "\r", and code points of
\* two, three (as in the text of the test) and four bytes.
TextCodePoints == {97, 10, 13, 233, 20320, 128512}

\* read_file_to_string(filepath) on an entry of the filesystem.
ReadCalls == {[op |-> "read_file_to_string", filepath |-> p] : p \in HelperPaths}

\* A text is written in UTF-8 to a new file, named as no entry of the
\* working directory is, read_file_to_string is called on the file, and the
\* file is removed again, as the test's setUp, test and tearDown do.
WriteReadCalls ==
  {[op |-> "write, read_file_to_string, remove", text |-> t,
    filepath |-> [abs |-> FALSE, parts |-> <<MissingName>>]] :
     t \in Strings(TextCodePoints, MaxTextLen)}

\* Line 89: the path is a FIFO without a writer, open does not return.
ReadFileToStringBlocks ==
  /\ Pending("read_file_to_string")
  /\ OpenOutcome(fs, call[1].filepath) = "blocks"
  /\ outcome' = Some([kind |-> "blocked"])
  /\ opened' = opened \cup {call[1].filepath}
  /\ UNCHANGED <<fs, scan_vars, call>>
  /\ UNCHANGED <<other_vars, list_id>>

\* Lines 87-101: the file is opened and read, or an exception is caught.
ReadFileToStringReturns ==
  /\ Pending("read_file_to_string")
  /\ OpenOutcome(fs, call[1].filepath) # "blocks"
  /\ outcome' = Some(Returned(ReadFileToString(fs, call[1].filepath)))
  /\ opened' = opened \cup {call[1].filepath}
  /\ UNCHANGED <<fs, scan_vars, call>>
  /\ UNCHANGED <<other_vars, list_id>>

\* Lines 87-92 on a file that holds the UTF-8 encoding of the text: the
\* file is opened (line 89) and read.  The file is made before the call of
\* read_file_to_string and removed after it, so the step leaves the
\* filesystem as it found it: the name is in no directory again.
WriteThenReadFileToString ==
  /\ Pending("write, read_file_to_string, remove")
  /\ outcome' = Some(Returned(ReadText(Utf8Encode(call[1].text))))
  /\ opened' = opened \cup {call[1].filepath}
  /\ UNCHANGED <<fs, scan_vars, call>>
  /\ UNCHANGED <<other_vars, list_id>>

\* get_file_size_in_bytes(file_path)
SizeCalls == {[op |-> "get_file_size_in_bytes", file_path |-> p] : p \in HelperPaths}

\* Lines 57-75: every path of the function returns.
GetFileSizeInBytesReturns ==
  /\ Pending("get_file_size_in_bytes")
  /\ outcome' = Some(Returned(GetFileSizeInBytes(fs, call[1].file_path)))
  /\ UNCHANGED <<fs, scan_vars, opened, call>>
  /\ UNCHANGED <<other_vars, list_id>>

(* ------------------------- print_directory_tree ------------------------ *)

\* str.replace(old, ''): every occurrence of old, found from the left and
\* not overlapping, is removed.
RECURSIVE Remove(_, _)
Remove(s, old) ==
  IF old = << >> \/ Len(s) < Len(old) THEN s
  ELSE IF SubSeq(s, 1, Len(old)) = old
       THEN Remove(SubSeq(s, Len(old) + 1, Len(s)), old)
  ELSE <<s[1]>> \o Remove(Tail(s), old)

\* str.count(ch)
Count(s, ch) == Cardinality({j \in 1 .. Len(s) : s[j] = ch})

\* os.path.basename of a path string
BaseNameStr(s) == SubSeq(s, RFind(s, "/") + 1, Len(s))

\* os.path.join(top, name) of strings
StrJoin(top, name) ==
  IF top # << >> /\ top[Len(top)] = "/" THEN top \o name
  ELSE top \o <<"/">> \o name

\* The components of a path string, empty ones dropped.
RECURSIVE SplitParts(_, _, _)
SplitParts(s, cur, acc) ==
  IF s = << >> THEN (IF cur = << >> THEN acc ELSE Append(acc, cur))
  ELSE IF s[1] = "/"
       THEN SplitParts(Tail(s), << >>,
                       IF cur = << >> THEN acc ELSE Append(acc, cur))
  ELSE SplitParts(Tail(s), Append(cur, s[1]), acc)

\* The path a string names, as the kernel reads it: absolute when it
\* starts with a separator, its components "." and ".." kept; a separator
\* at the end leaves an empty last component.
PathOf(s) ==
  LET parts == SplitParts(s, << >>, << >>)
  IN [abs |-> s # << >> /\ s[1] = "/",
      parts |-> IF parts # << >> /\ s[Len(s)] = "/" THEN Append(parts, << >>)
                ELSE parts]

\* os.walk(top), top down, links to directories not followed: the
\* sequence of (root, dirs, files); a directory that cannot be scanned
\* yields nothing.
RECURSIVE OsWalk(_, _)
RECURSIVE OsWalkInto(_, _, _)
OsWalk(f, top) ==
  IF ListDirOutcome(f, PathOf(top)) # "ok" THEN << >>
  ELSE LET names == Names(f, Resolve(f, PathOf(top))[1])
           is_dir(n) == IsDir(f, Join(PathOf(top), n))
           is_file(n) == ~IsDir(f, Join(PathOf(top), n))
       IN <<[root |-> top, dirs |-> SelectSeq(names, is_dir),
             files |-> SelectSeq(names, is_file)]>>
          \o OsWalkInto(f, top, SelectSeq(names, is_dir))

OsWalkInto(f, top, dirs) ==
  IF dirs = << >> THEN << >>
  ELSE (IF IsLink(f, Join(PathOf(top), Head(dirs))) THEN << >>
        ELSE OsWalk(f, StrJoin(top, Head(dirs))))
       \o OsWalkInto(f, top, Tail(dirs))

DirPrefix == "+-- "

FilePrefix == "|-- "

\* Lines 151-157: the lines one (root, dirs, files) adds to the tree, each
\* with the number of indent_char before its prefix.
TreeLines(step, root_dir) ==
  LET level == Count(Remove(step.root, root_dir), "/")
  IN <<[indent |-> level, prefix |-> DirPrefix, name |-> BaseNameStr(step.root)]>>
     \o [k \in 1 .. Len(step.files) |->
           [indent |-> level + 1, prefix |-> FilePrefix, name |-> step.files[k]]]

RECURSIVE TreeOf(_, _)
TreeOf(steps, root_dir) ==
  IF steps = << >> THEN << >>
  ELSE TreeLines(Head(steps), root_dir) \o TreeOf(Tail(steps), root_dir)

PrintDirectoryTree(f, root_dir) == TreeOf(OsWalk(f, root_dir), root_dir)

\* The spellings of the root: the working directory and its first entry,
\* relative and absolute, without and with a trailing separator; a name
\* the working directory does not hold; the empty string; ".." after the
\* first entry and after the missing name.
RootSpellings ==
  {Dot, Dot \o <<"/">>, NameOf(1), NameOf(1) \o <<"/">>,
   <<"/">> \o TopName, <<"/">> \o TopName \o <<"/">> \o NameOf(1) \o <<"/">>,
   MissingName, << >>, NameOf(1) \o <<"/">> \o DotDot,
   MissingName \o <<"/">> \o DotDot}

\* print_directory_tree(root_dir) with the default tokens.
PrintCalls ==
  {[op |-> "print_directory_tree", root_dir |-> v] :
     v \in {PyStr(s) : s \in RootSpellings} \cup NonStrings}

\* Line 150: os.walk refuses a root that is no path.
PrintDirectoryTreeRaises ==
  /\ Pending("print_directory_tree")
  /\ call[1].root_dir.type # "str"
  /\ outcome' = Some(Raised("TypeError: expected str, bytes or os.PathLike object"))
  /\ UNCHANGED <<fs, scan_vars, opened, call>>
  /\ UNCHANGED <<other_vars, list_id>>

\* Lines 149-159
PrintDirectoryTreeReturns ==
  /\ Pending("print_directory_tree")
  /\ call[1].root_dir.type = "str"
  /\ outcome' = Some(Returned(PrintDirectoryTree(fs, call[1].root_dir.value)))
  /\ UNCHANGED <<fs, scan_vars, opened, call>>
  /\ UNCHANGED <<other_vars, list_id>>

(* --------------------- the helpers' specification ---------------------- *)

\* The filesystems print_directory_tree is run on.
TreeFilesystems == ErrorFs(MaxNodes) \cup LinkFs(MaxNodes)

\* One helper is called once, on any of its inputs.  A root of
\* print_directory_tree that names the directory above the top one is left
\* out: what that directory holds is no part of the filesystem.
HelperInit ==
  /\ root_folder_path = None
  /\ status = "idle"
  /\ base_path = None
  /\ stack = << >>
  /\ tree_nodes = << >>
  /\ result = None
  /\ listed = {}
  /\ opened = {}
  /\ outcome = None
  /\ handles = {}
  /\ query = None
  /\ list_id = 0
  /\ earlier = << >>
  /\ removed = {}
  /\ \/ fs = FlatFs("file", {}) /\ \E c \in ExtensionCalls : call = Some(c)
     \/ fs \in HelperFilesystems /\ \E c \in ChecksumCalls : call = Some(c)
     \/ fs \in HelperFilesystems /\ \E c \in ReadCalls : call = Some(c)
     \/ fs = FlatFs("file", {}) /\ \E c \in WriteReadCalls : call = Some(c)
     \/ fs \in HelperFilesystems /\ \E c \in SizeCalls : call = Some(c)
     \/ /\ fs \in TreeFilesystems
        /\ \E c \in PrintCalls :
             /\ call = Some(c)
             /\ IF c.root_dir.type # "str" THEN TRUE
                ELSE IF PathOf(c.root_dir.value).parts = << >> THEN TRUE
                ELSE LET p == PathOf(c.root_dir.value)
                         end == Walk(fs, <<IF p.abs THEN -2 ELSE 0, MAXSYMLINKS>>,
                                     p.parts, 1, Len(p.parts))
                     IN IF Len(end) = 2 THEN end[1] # -2 ELSE TRUE

HelperNext ==
  \/ GetFileExtensionRaises
  \/ GetFileExtensionReturns
  \/ CalculateFileChecksumUnsupported
  \/ CalculateFileChecksumNewRaises
  \/ CalculateFileChecksumBlocks
  \/ CalculateFileChecksumReturns
  \/ ReadFileToStringBlocks
  \/ ReadFileToStringReturns
  \/ WriteThenReadFileToString
  \/ GetFileSizeInBytesReturns
  \/ PrintDirectoryTreeRaises
  \/ PrintDirectoryTreeReturns

HelperSpec == HelperInit /\ [][HelperNext]_vars

(* ------------------------ claims on the helpers ------------------------ *)

\* C11 (as stated): get_file_extension of a str returns None for "." and
\* "..", None for a name without a dot, None for a name whose only dot is
\* its first character, and for every other name whose last dot is not its
\* first character the characters after the last dot, unchanged.
C11_ExtensionOfName ==
  (Ended("get_file_extension") /\ call[1].file_name.type = "str") =>
    LET name == call[1].file_name.value
        dots == {j \in 1 .. Len(name) : name[j] = "."}
        last == RFind(name, ".")
    IN /\ outcome[1].kind = "returned"
       /\ name \in {Dot, DotDot} => outcome[1].value = None
       /\ dots = {} => outcome[1].value = None
       /\ dots = {1} => outcome[1].value = None
       /\ (name \notin {Dot, DotDot} /\ dots # {} /\ last # 1) =>
            outcome[1].value = Some(SubSeq(name, last + 1, Len(name)))

\* C12 (as stated): calculate_file_checksum with a name that is no digest
\* algorithm of hashlib returns None, raises nothing and opens no file.
C12_UnsupportedAlgorithmIsNone ==
  (Ended("calculate_file_checksum")
     /\ call[1].hash_algorithm \notin HashlibDigests) =>
    /\ outcome[1].kind = "returned"
    /\ outcome[1].value = None
    /\ opened = {}

\* The algorithms the function's documentation names.
DocumentedAlgorithms == {"md5", "sha1", "sha256", "sha512"}

\* C13 (as stated): for a readable regular file, a documented algorithm and
\* any integer chunk_size, calculate_file_checksum returns the digest of all
\* the bytes of the file.
C13_DigestOfWholeFile ==
  (Ended("calculate_file_checksum")
     /\ call[1].hash_algorithm \in DocumentedAlgorithms
     /\ IsFile(fs, call[1].file_path)
     /\ "hash" \notin fs[Resolve(fs, call[1].file_path)[1]].faults) =>
    /\ outcome[1].kind = "returned"
    /\ outcome[1].value =
         Some(HexDigest(call[1].hash_algorithm,
                        DataOf(Resolve(fs, call[1].file_path)[1])))

\* C14 (as stated): a text written to a file in UTF-8 and read with
\* read_file_to_string comes back unchanged.
C14_ReadTextRoundTrip ==
  Ended("write, read_file_to_string, remove") =>
    /\ outcome[1].kind = "returned"
    /\ outcome[1].value = Some(call[1].text)

\* C15: get_file_size_in_bytes always returns: None for a path that does
\* not exist, None for one that is no regular file (whatever its length
\* query would give), None when the length query of a regular file fails,
\* and the number of bytes otherwise.
C15_SizeOrNone ==
  Ended("get_file_size_in_bytes") =>
    LET r == Resolve(fs, call[1].file_path)
    IN /\ outcome[1].kind = "returned"
       /\ r = None => outcome[1].value = None
       /\ (r # None /\ fs[r[1]].kind # "file") => outcome[1].value = None
       /\ (r # None /\ fs[r[1]].kind = "file" /\ "size" \in fs[r[1]].faults) =>
            outcome[1].value = None
       /\ (r # None /\ fs[r[1]].kind = "file" /\ "size" \notin fs[r[1]].faults) =>
            outcome[1].value = Some(Len(DataOf(r[1])))

\* The call returned None for a regular file whose length query fails.
C15_Witness ==
  /\ Ended("get_file_size_in_bytes")
  /\ IsFile(fs, call[1].file_path)
  /\ "size" \in fs[Resolve(fs, call[1].file_path)[1]].faults
  /\ outcome[1] = Returned(None)

\* C16 (as stated): get_file_extension of a value that is no str raises
\* TypeError "Input must be a string.", and no other helper ever raises.
C16_OnlyExtensionRaises ==
  /\ (Ended("get_file_extension") /\ call[1].file_name.type # "str") =>
       /\ outcome[1].kind = "raised"
       /\ outcome[1].exception = "TypeError: Input must be a string."
  /\ (call # None /\ outcome # None /\ outcome[1].kind = "raised") =>
       call[1].op = "get_file_extension"

\* The filesystem has no symbolic link and every directory can be listed.
PlainTree(f) ==
  \A i \in DOMAIN f : f[i].kind # "symlink" /\ f[i].listing = "ok"

\* The lines C17 asks for: one for directory d at its depth, one for each
\* of its other entries one level deeper, then those of its directories.
RECURSIVE ExpectedTree(_, _, _)
RECURSIVE ExpectedBelow(_, _, _, _)
ExpectedTree(f, d, depth) ==
  LET names == Names(f, Resolve(f, d)[1])
      is_dir(n) == IsDir(f, Join(d, n))
      is_file(n) == ~IsDir(f, Join(d, n))
  IN <<[indent |-> depth, prefix |-> DirPrefix]>>
     \o [k \in 1 .. Len(SelectSeq(names, is_file)) |->
           [indent |-> depth + 1, prefix |-> FilePrefix]]
     \o ExpectedBelow(f, d, SelectSeq(names, is_dir), depth + 1)

ExpectedBelow(f, d, dirs, depth) ==
  IF dirs = << >> THEN << >>
  ELSE ExpectedTree(f, Join(d, Head(dirs)), depth)
       \o ExpectedBelow(f, d, Tail(dirs), depth)

\* C17 (as stated): for every spelling of a root that is a directory,
\* print_directory_tree gives one line per directory at its depth below the
\* root and one line per file one level deeper than its directory.
C17_IndentIsDepth ==
  (Ended("print_directory_tree") /\ call[1].root_dir.type = "str"
     /\ PlainTree(fs) /\ IsDir(fs, PathOf(call[1].root_dir.value))) =>
    /\ outcome[1].kind = "returned"
    /\ [k \in 1 .. Len(outcome[1].value) |->
          [indent |-> outcome[1].value[k].indent,
           prefix |-> outcome[1].value[k].prefix]]
         = ExpectedTree(fs, PathOf(call[1].root_dir.value), 0)

(* ------------------------- claims on the walk -------------------------- *)

\* The positions of the descriptors of the entries below path d.
BlockOf(list, d) == {k \in 1 .. Len(list) : IsBelow(list[k].full_path, d)}

\* A set of positions without a gap.
IsInterval(S) == \A a, b \in S : \A k \in a .. b : k \in S

\* The siblings that precede path d in the listing of its directory.
EarlierSiblings(d) ==
  LET names == Names(fs, Resolve(fs, DirName(d))[1])
      at == CHOOSE j \in 1 .. Len(names) : names[j] = BaseName(d)
  IN {Join(DirName(d), names[j]) : j \in 1 .. (at - 1)}

\* C18: in a returned list the descriptors of the entries below a directory
\* D form one block without a gap that touches D's own descriptor, after all
\* the descriptors of D's earlier siblings and of the entries below them, and
\* before all those of D's later siblings.
C18_DepthFirstBlocks ==
  ReturnedList =>
    \A j \in 1 .. Len(result[1]) :
      LET d == result[1][j].full_path
          all == BlockOf(result[1], d) \cup PositionsOf(result[1], d)
      IN /\ IsInterval(BlockOf(result[1], d))
         /\ IsInterval(all)
         /\ IsBelow(d, base_path[1]) =>
              /\ \A sib \in EarlierSiblings(d) :
                   \A k \in BlockOf(result[1], sib) \cup PositionsOf(result[1], sib) :
                     \A m \in all : k < m
              /\ \A sib \in LaterSiblings(d) :
                   \A k \in BlockOf(result[1], sib) \cup PositionsOf(result[1], sib) :
                     \A m \in all : m < k

\* A returned list with a directory that has entries below it, an earlier
\* sibling and a later one.
C18_Witness ==
  /\ ReturnedList
  /\ \E j \in 1 .. Len(result[1]) :
       /\ result[1][j].type = "directory"
       /\ Cardinality(BlockOf(result[1], result[1][j].full_path)) >= 2
       /\ EarlierSiblings(result[1][j].full_path) # {}
       /\ LaterSiblings(result[1][j].full_path) # {}

\* The directories whose listing failed with an OSError other than a denial.
OSErrorDirectories == {d \in listed : ListDirOutcome(fs, d) = "oserror"}

\* C19: a listing that fails with an OSError other than a denial leaves no
\* directory_inaccessible descriptor and no descriptor of an entry below the
\* directory; the activation ends normally, the descriptors of the earlier
\* siblings stay in the list and the later siblings get theirs; a root that
\* fails this way gives the empty list.
C19_ListingErrorSwallowed ==
  /\ (status = "running" /\ Top.phase = "done") =>
       ENABLED (ReturnToParent \/ ReturnToCaller)
  /\ ReturnedList =>
       \A d \in OSErrorDirectories :
         /\ \A k \in PositionsOf(result[1], d) :
              result[1][k].type # "directory_inaccessible"
         /\ BlockOf(result[1], d) = {}
         /\ d = base_path[1] => result = Some(<< >>)
         /\ d # base_path[1] =>
              \A sib \in EarlierSiblings(d) \cup LaterSiblings(d) :
                PositionsOf(result[1], sib) # {}

\* A returned list for a directory whose listing failed between an earlier
\* and a later sibling.
C19_Witness ==
  /\ ReturnedList
  /\ \E d \in OSErrorDirectories :
       /\ d # base_path[1]
       /\ EarlierSiblings(d) # {}
       /\ LaterSiblings(d) # {}
       /\ Len(result[1]) >= 3

\* C20: a scan root whose listing is denied gives a list of exactly one
\* descriptor, of type directory_inaccessible, named after the root, with
\* the marker permissions and no children; and no returned list holds a
\* descriptor below the path of a directory_inaccessible descriptor.
C20_DeniedRootMarker ==
  ReturnedList =>
    /\ ListDirOutcome(fs, base_path[1]) = "denied" =>
         /\ Len(result[1]) = 1
         /\ result[1][1].type = "directory_inaccessible"
         /\ result[1][1].name = BaseName(AbsPath(root_folder_path[1]))
         /\ result[1][1].permissions = "d????????? (Permission Denied)"
         /\ result[1][1].children = << >>
    /\ \A j \in 1 .. Len(result[1]) :
         result[1][j].type = "directory_inaccessible" =>
           BlockOf(result[1], result[1][j].full_path) = {}

\* The scan of a root whose listing is denied has returned its list.
C20_Witness ==
  /\ ReturnedList
  /\ ListDirOutcome(fs, base_path[1]) = "denied"
  /\ Len(result[1]) = 1

(* -------------------- the file objects of one entry -------------------- *)

\* The for loop of line 200 is at an entry.
AtEntry == status = "running" /\ Top.phase = "loop" /\ Top.items # << >>

\* Line 201: the full path of that entry.
Current == Join(Top.path, Head(Top.items))

\* The object open(path, mode) returns.
FileObject(p, mode) == [path |-> p, mode |-> mode]

Query(p, at) == Some([path |-> p, at |-> at])

\* Line 209 has not been reached for the entry.
NotStarted == IF query = None THEN TRUE ELSE query[1].path # Current

\* The queries of the entry are at that point.
At(where) == query # None /\ query[1].path = Current /\ query[1].at = where

\* Line 129 (called at line 209): open(file_path, 'rb') returns a file
\* object.
ChecksumOpen ==
  /\ AtEntry
  /\ NotStarted
  /\ OpenOutcome(fs, Current) = "ok"
  /\ handles' = handles \cup {FileObject(Current, "rb")}
  /\ query' = Query(Current, "hashing")
  /\ opened' = opened \cup {Current}
  /\ UNCHANGED <<fs, scan_vars, helper_vars, list_id, earlier, removed>>

\* Lines 129 and 141-145: open raises, for what the entry is or because the
\* environment makes it fail; no file object exists.
ChecksumOpenFails ==
  /\ AtEntry
  /\ NotStarted
  /\ \/ OpenOutcome(fs, Current) = "error"
     \/ /\ OpenOutcome(fs, Current) = "ok"
        /\ "hash" \in fs[Resolve(fs, Current)[1]].faults
  /\ query' = Query(Current, "hashed")
  /\ opened' = opened \cup {Current}
  /\ UNCHANGED <<fs, scan_vars, helper_vars, handles, list_id, earlier, removed>>

\* Lines 130-139: the reading loop ends; the with statement closes the file
\* object.
ChecksumRead ==
  /\ AtEntry
  /\ At("hashing")
  /\ "hash" \notin fs[Resolve(fs, Current)[1]].faults
  /\ handles' = handles \ {FileObject(Current, "rb")}
  /\ query' = Query(Current, "hashed")
  /\ UNCHANGED <<fs, scan_vars, opened, helper_vars, list_id, earlier, removed>>

\* Lines 132 and 141-145: f.read raises; the with statement closes the file
\* object before the except clause runs.
ChecksumReadFails ==
  /\ AtEntry
  /\ At("hashing")
  /\ "hash" \in fs[Resolve(fs, Current)[1]].faults
  /\ handles' = handles \ {FileObject(Current, "rb")}
  /\ query' = Query(Current, "hashed")
  /\ UNCHANGED <<fs, scan_vars, opened, helper_vars, list_id, earlier, removed>>

\* Line 89 (called at line 210): open(file_path, 'r', encoding='utf-8')
\* returns a file object.
ContentOpen ==
  /\ AtEntry
  /\ At("hashed")
  /\ OpenOutcome(fs, Current) = "ok"
  /\ handles' = handles \cup {FileObject(Current, "r")}
  /\ query' = Query(Current, "reading")
  /\ UNCHANGED <<fs, scan_vars, opened, helper_vars, list_id, earlier, removed>>

\* Lines 89 and 93-101: open raises; no file object exists.
ContentOpenFails ==
  /\ AtEntry
  /\ At("hashed")
  /\ \/ OpenOutcome(fs, Current) = "error"
     \/ /\ OpenOutcome(fs, Current) = "ok"
        /\ "read" \in fs[Resolve(fs, Current)[1]].faults
  /\ query' = Query(Current, "read")
  /\ UNCHANGED <<fs, scan_vars, opened, helper_vars, handles, list_id, earlier,
                 removed>>

\* Lines 90-91: f.read() returns the text; the with statement closes the
\* file object.
ContentRead ==
  /\ AtEntry
  /\ At("reading")
  /\ "read" \notin fs[Resolve(fs, Current)[1]].faults
  /\ ReadText(DataOf(Resolve(fs, Current)[1])) # None
  /\ handles' = handles \ {FileObject(Current, "r")}
  /\ query' = Query(Current, "read")
  /\ UNCHANGED <<fs, scan_vars, opened, helper_vars, list_id, earlier, removed>>

\* Variant: the file object is closed by a call after f.read(), which a
\* failing read skips.
ContentReadFailsLeaks ==
  /\ AtEntry
  /\ At("reading")
  /\ \/ "read" \in fs[Resolve(fs, Current)[1]].faults
     \/ ReadText(DataOf(Resolve(fs, Current)[1])) = None
  /\ query' = Query(Current, "read")
  /\ UNCHANGED <<fs, scan_vars, opened, helper_vars, handles, list_id, earlier,
                 removed>>

\* Lines 90 and 96-101: f.read() raises UnicodeDecodeError or an I/O error;
\* the with statement closes the file object before the except clause runs.
ContentReadFails ==
  /\ AtEntry
  /\ At("reading")
  /\ \/ "read" \in fs[Resolve(fs, Current)[1]].faults
     \/ ReadText(DataOf(Resolve(fs, Current)[1])) = None
  /\ handles' = handles \ {FileObject(Current, "r")}
  /\ query' = Query(Current, "read")
  /\ UNCHANGED <<fs, scan_vars, opened, helper_vars, list_id, earlier, removed>>

\* Line 129 for a FIFO without a writer: the first open of the entry never
\* returns.
BlocksAtChecksum == AtEntry /\ NotStarted /\ VisitBlocks

\* Lines 211-228, after both file objects of the entry are closed.
DirectoryAfterQueries == AtEntry /\ At("read") /\ VisitDirectory

\* Lines 211-234, after both file objects of the entry are closed.
LeafAfterQueries == AtEntry /\ At("read") /\ VisitLeaf

\* The filesystems the file objects are followed on: files with failing
\* queries and with bytes that are not UTF-8, directories, FIFOs.
HandleFilesystems == PlainFs(MaxFaultNodes) \cup NestedFs \cup HelperFilesystems

HandleInit ==
  /\ fs \in HandleFilesystems
  /\ root_folder_path = None
  /\ status = "idle"
  /\ base_path = None
  /\ stack = << >>
  /\ tree_nodes = << >>
  /\ result = None
  /\ listed = {}
  /\ opened = {}
  /\ call = None
  /\ outcome = None
  /\ handles = {}
  /\ query = None
  /\ list_id = 0
  /\ earlier = << >>
  /\ removed = {}

HandleNext ==
  \/ RejectRoot
  \/ EnterRoot
  \/ ListDirOk
  \/ ListDirDenied
  \/ ListDirOSError
  \/ BlocksAtChecksum
  \/ ChecksumOpen
  \/ ChecksumOpenFails
  \/ ChecksumRead
  \/ ChecksumReadFails
  \/ ContentOpen
  \/ ContentOpenFails
  \/ ContentRead
  \/ ContentReadFails
  \/ DirectoryAfterQueries
  \/ LeafAfterQueries
  \/ ReturnToParent
  \/ ReturnToCaller

HandleSpec == HandleInit /\ [][HandleNext]_vars

\* C21: at every point of a scan at most one file object is open; an open
\* file object belongs to the entry the loop is at and to the query that
\* opened it (hashing or content capture), so it is closed before the next
\* open and before the next entry, also when the read fails; none is open
\* when get_folder_tree has returned.
C21_OneHandleAtATime ==
  /\ Cardinality(handles) <= 1
  /\ \A h \in handles :
       /\ AtEntry
       /\ h.path = Current
       /\ \/ h.mode = "rb" /\ At("hashing")
          \/ h.mode = "r" /\ At("reading")
  /\ status = "returned" => handles = {}

\* A scan has returned after a content read failed on a file whose hashing
\* succeeded, and after another file was hashed and read.
C21_Witness ==
  /\ ReturnedList
  /\ \E j, k \in 1 .. Len(result[1]) :
       /\ result[1][j].type = "file"
       /\ result[1][j].checksum # None
       /\ result[1][j].content = None
       /\ result[1][k].type = "file"
       /\ result[1][k].checksum # None
       /\ result[1][k].content # None

(* --------------------------- successive calls -------------------------- *)

\* The number of calls one caller makes.
MaxCalls == 2

\* The caller keeps what the call returned (with the argument and, when it
\* is a list, the identity of that list) and is about to call again; the
\* list object lives on with the caller.
CallAgain ==
  /\ status = "returned"
  /\ Len(earlier) < MaxCalls - 1
  /\ earlier' = Append(earlier, [root_folder_path |-> root_folder_path[1],
                                 id |-> list_id, result |-> result])
  /\ status' = "idle"
  /\ root_folder_path' = None
  /\ base_path' = None
  /\ result' = None
  /\ listed' = {}
  /\ opened' = {}
  /\ UNCHANGED <<fs, stack, tree_nodes, helper_vars, handles, query, list_id,
                 removed>>

\* What the list returned by the k-th earlier call holds now: the running
\* call writes the object tree_nodes refers to and no other.
ListNow(k) ==
  IF earlier[k].id = list_id THEN tree_nodes ELSE earlier[k].result[1]

\* The filesystems successive calls are made on.
CallsFilesystems == PlainFs(MaxFaultNodes) \cup UnlistableTopFs \cup NestedFs

CallsInit ==
  /\ fs \in CallsFilesystems
  /\ root_folder_path = None
  /\ status = "idle"
  /\ base_path = None
  /\ stack = << >>
  /\ tree_nodes = << >>
  /\ result = None
  /\ listed = {}
  /\ opened = {}
  /\ call = None
  /\ outcome = None
  /\ handles = {}
  /\ query = None
  /\ list_id = 0
  /\ earlier = << >>
  /\ removed = {}

CallsNext ==
  \/ RejectRoot
  \/ EnterRoot
  \/ ListDirOk
  \/ ListDirDenied
  \/ ListDirOSError
  \/ VisitDirectory
  \/ VisitLeaf
  \/ ReturnToParent
  \/ ReturnToCaller
  \/ CallAgain

CallsSpec == CallsInit /\ [][CallsNext]_vars

\* C22: every call builds a new list: the list a call returns holds only
\* descriptors of paths at or below that call's root, a list returned by an
\* earlier call holds what it held when it was returned whatever a later
\* call does, and a call with the same argument as an earlier one, the
\* filesystem being unchanged, returns an equal list.
C22_FreshListPerCall ==
  /\ \A k \in 1 .. Len(earlier) :
       earlier[k].result # None => ListNow(k) = earlier[k].result[1]
  /\ ReturnedList =>
       \A j \in 1 .. Len(result[1]) :
         \/ result[1][j].full_path = base_path[1]
         \/ IsBelow(result[1][j].full_path, base_path[1])
  /\ ReturnedList =>
       \A k \in 1 .. Len(earlier) :
         (earlier[k].result # None /\ earlier[k].root_folder_path = root_folder_path[1])
           => result[1] = earlier[k].result[1]

\* A second call has returned a list of descriptors after a first call, with
\* another root, returned a list of descriptors too.
C22_Witness ==
  /\ ReturnedList
  /\ result[1] # << >>
  /\ \E k \in 1 .. Len(earlier) :
       /\ earlier[k].result # None
       /\ earlier[k].result[1] # << >>
       /\ earlier[k].root_folder_path # root_folder_path[1]

(* ------------------- entries removed during the scan ------------------- *)

\* The number of entries other processes remove during one scan.
MaxRemovals == 2

\* The filesystem after unlink, rmdir or a recursive removal of path p: no
\* directory holds the entry any more.  The process that removes it may
\* search every directory.
Unlink(f, p) ==
  [f EXCEPT ![EntryInode([i \in DOMAIN f |-> [f[i] EXCEPT !.listing = "ok"]],
                         p)[1]].parent = -1]

\* Lines 208-211: what the queries of the entry at path p have returned so
\* far; at names the last query made.
Seen(p, at, permissions, checksum, content, size) ==
  Some([path |-> p, at |-> at, permissions |-> permissions,
        checksum |-> checksum, content |-> content, size |-> size])

\* Lines 214-232: the descriptor made of what the queries returned.
NodeSeen(type) ==
  [name |-> Head(Top.items),
   full_path |-> Current,
   relative_path |-> RelativePath(Top.path, base_path[1], Head(Top.items)),
   permissions |-> query[1].permissions,
   checksum |-> query[1].checksum,
   size |-> query[1].size,
   extension |-> GetFileExtension(Head(Top.items)),
   content |-> query[1].content,
   type |-> type]

\* Lines 208 and 185-190: os.stat of the entry.
QueryPermissions ==
  /\ AtEntry
  /\ NotStarted
  /\ query' = Seen(Current, "permissions", GetPermissions(fs, Current),
                   None, None, None)
  /\ UNCHANGED <<fs, scan_vars, opened, helper_vars, handles, list_id, earlier,
                 removed>>

\* Line 209: calculate_file_checksum opens the entry and reads it, unless
\* the open never returns; a file removed after the open is read to its end
\* all the same.
QueryChecksum ==
  /\ AtEntry
  /\ At("permissions")
  /\ OpenOutcome(fs, Current) # "blocks"
  /\ query' = Some([query[1] EXCEPT
                      !.at = "checksum",
                      !.checksum = CalculateFileChecksum(fs, Current,
                                     DefaultHashAlgorithm, DefaultChunkSize)])
  /\ opened' = opened \cup {Current}
  /\ UNCHANGED <<fs, scan_vars, helper_vars, handles, list_id, earlier, removed>>

\* Line 210: read_file_to_string opens the entry and reads it.
QueryContent ==
  /\ AtEntry
  /\ At("checksum")
  /\ query' = Some([query[1] EXCEPT
                      !.at = "content",
                      !.content = ReadFileToString(fs, Current)])
  /\ UNCHANGED <<fs, scan_vars, opened, helper_vars, handles, list_id, earlier,
                 removed>>

\* Line 211: get_file_size_in_bytes; an entry removed between its calls
\* (lines 59, 62, 66) gives None as one removed before them does.
QuerySize ==
  /\ AtEntry
  /\ At("content")
  /\ query' = Some([query[1] EXCEPT
                      !.at = "size",
                      !.size = GetFileSizeInBytes(fs, Current)])
  /\ UNCHANGED <<fs, scan_vars, opened, helper_vars, handles, list_id, earlier,
                 removed>>

\* Lines 225-228: os.path.isdir is true; the recursive call starts.
ClassifyDirectory ==
  /\ AtEntry
  /\ At("size")
  /\ IsDir(fs, Current)
  /\ stack' = Append(SetTop([Top EXCEPT !.node = Some(NodeSeen("directory"))]),
                     Frame(Current))
  /\ UNCHANGED <<fs, root_folder_path, status, base_path, tree_nodes, result,
                 listed, opened, helper_vars, other_vars, list_id>>

\* Lines 225 and 229: os.path.isdir is false.
ClassifyNotDirectory ==
  /\ AtEntry
  /\ At("size")
  /\ ~IsDir(fs, Current)
  /\ query' = Some([query[1] EXCEPT !.at = "isdir"])
  /\ UNCHANGED <<fs, scan_vars, opened, helper_vars, handles, list_id, earlier,
                 removed>>

\* Variant: an entry that is gone when the loop comes to classify it is
\* skipped.
ClassifyLeafSkipsMissing ==
  /\ AtEntry
  /\ At("isdir")
  /\ tree_nodes' = IF Exists(fs, Current)
                   THEN Append(tree_nodes,
                               NodeSeen(IF IsFile(fs, Current) THEN "file" ELSE "other"))
                   ELSE tree_nodes
  /\ stack' = SetTop([Top EXCEPT !.items = Tail(Top.items)])
  /\ UNCHANGED <<fs, root_folder_path, status, base_path, result, listed, opened,
                 helper_vars, other_vars, list_id>>

\* Lines 229-234: os.path.isfile tells a file from anything else; the
\* descriptor is appended.
ClassifyLeaf ==
  /\ AtEntry
  /\ At("isdir")
  /\ tree_nodes' = Append(tree_nodes,
                          NodeSeen(IF IsFile(fs, Current) THEN "file" ELSE "other"))
  /\ stack' = SetTop([Top EXCEPT !.items = Tail(Top.items)])
  /\ UNCHANGED <<fs, root_folder_path, status, base_path, result, listed, opened,
                 helper_vars, other_vars, list_id>>

\* The names an activation got from os.listdir and has not inspected yet:
\* for the activation on top those after the entry whose queries have
\* started, for the others those after the directory being descended into.
Uninspected(k) ==
  IF stack[k].phase # "loop" \/ stack[k].items = << >> THEN {}
  ELSE (IF k = Len(stack) /\ NotStarted THEN 1 ELSE 2) .. Len(stack[k].items)

SiblingsAfter(k, j) ==
  {Join(stack[k].path, stack[k].items[i]) : i \in (j + 1) .. Len(stack[k].items)}

\* Another process removes an entry between line 199, where its name was
\* listed, and line 208, where its first query is made.
RemoveListed ==
  /\ status = "running"
  /\ Cardinality(removed) < MaxRemovals
  /\ \E k \in 1 .. Len(stack) :
       \E j \in Uninspected(k) :
         /\ EntryInode(fs, Join(stack[k].path, stack[k].items[j])) # None
         /\ fs' = Unlink(fs, Join(stack[k].path, stack[k].items[j]))
         /\ removed' = removed \cup
              {[path |-> Join(stack[k].path, stack[k].items[j]),
                window |-> "listed",
                later |-> SiblingsAfter(k, j)]}
  /\ UNCHANGED <<scan_vars, opened, helper_vars, handles, query, list_id, earlier>>

\* Another process removes the entry between two of its queries, lines 208
\* to 229.
RemoveInspected ==
  /\ AtEntry
  /\ ~NotStarted
  /\ Cardinality(removed) < MaxRemovals
  /\ EntryInode(fs, Current) # None
  /\ fs' = Unlink(fs, Current)
  /\ removed' = removed \cup
       {[path |-> Current, window |-> "inspected",
         later |-> SiblingsAfter(Len(stack), 1)]}
  /\ UNCHANGED <<scan_vars, opened, helper_vars, handles, query, list_id, earlier>>

\* Another process removes a directory between line 225, where isdir was
\* true, and line 199 of the recursive call, where it is listed.
RemoveClassified ==
  /\ status = "running"
  /\ Cardinality(removed) < MaxRemovals
  /\ Len(stack) > 1
  /\ Top.phase = "list"
  /\ EntryInode(fs, Top.path) # None
  /\ fs' = Unlink(fs, Top.path)
  /\ removed' = removed \cup
       {[path |-> Top.path, window |-> "classified",
         later |-> SiblingsAfter(Len(stack) - 1, 1)]}
  /\ UNCHANGED <<scan_vars, opened, helper_vars, handles, query, list_id, earlier>>

\* Another process removes an entry below the root that the three actions
\* above do not remove in this state: one not listed yet, one whose
\* descriptor is complete, a directory being scanned.
RemoveElsewhere ==
  /\ status = "running"
  /\ Cardinality(removed) < MaxRemovals
  /\ \E p \in EntriesBelow(fs, base_path[1])
              \ (UNION {{Join(stack[k].path, stack[k].items[j]) : j \in Uninspected(k)} :
                          k \in 1 .. Len(stack)}
                   \cup (IF AtEntry THEN {Current} ELSE {})
                   \cup (IF Len(stack) > 1 /\ Top.phase = "list"
                         THEN {Top.path} ELSE {})) :
       /\ fs' = Unlink(fs, p)
       /\ removed' = removed \cup {[path |-> p, window |-> "elsewhere", later |-> {}]}
  /\ UNCHANGED <<scan_vars, opened, helper_vars, handles, query, list_id, earlier>>

\* One step of the scan itself.
ScanStep ==
  \/ ListDirOk
  \/ ListDirDenied
  \/ ListDirOSError
  \/ QueryPermissions
  \/ QueryChecksum
  \/ QueryContent
  \/ QuerySize
  \/ ClassifyDirectory
  \/ ClassifyNotDirectory
  \/ ClassifyLeaf
  \/ ReturnToParent
  \/ ReturnToCaller

\* The filesystems entries are removed from: files whose queries all work
\* or all fail and directories, nested, listable or not.
RaceFilesystems ==
  {f \in PlainFs(MaxFaultNodes) : \A i \in DOMAIN f : f[i].faults \in {{}, Faults}}
    \cup NestedFs

RaceInit ==
  /\ fs \in RaceFilesystems
  /\ root_folder_path = None
  /\ status = "idle"
  /\ base_path = None
  /\ stack = << >>
  /\ tree_nodes = << >>
  /\ result = None
  /\ listed = {}
  /\ opened = {}
  /\ call = None
  /\ outcome = None
  /\ handles = {}
  /\ query = None
  /\ list_id = 0
  /\ earlier = << >>
  /\ removed = {}

RaceNext ==
  \/ RejectRoot
  \/ EnterRoot
  \/ ListDirOk
  \/ ListDirDenied
  \/ ListDirOSError
  \/ QueryPermissions
  \/ QueryChecksum
  \/ QueryContent
  \/ QuerySize
  \/ ClassifyDirectory
  \/ ClassifyNotDirectory
  \/ ClassifyLeaf
  \/ ReturnToParent
  \/ ReturnToCaller
  \/ RemoveListed
  \/ RemoveInspected
  \/ RemoveClassified
  \/ RemoveElsewhere

RaceSpec == RaceInit /\ [][RaceNext]_vars

\* C23: when other processes remove entries during a scan, no exception
\* escapes and the scan goes on to its return; an entry removed after its
\* name was listed and before its first query has exactly one descriptor,
\* with the permission sentinel, no checksum, size or content and type
\* "other"; a directory removed after it was classified and before it was
\* listed has exactly one descriptor, of type "directory"; the siblings
\* listed after either have their descriptors after it.
C23_RemovedEntryIsOther ==
  /\ status \in {"idle", "running", "returned"}
  /\ status = "running" => ENABLED ScanStep
  /\ ReturnedList =>
       \A r \in {x \in removed : x.window \in {"listed", "classified"}} :
         /\ Cardinality(PositionsOf(result[1], r.path)) = 1
         /\ \A k \in PositionsOf(result[1], r.path) :
              /\ r.window = "listed" =>
                   /\ result[1][k].permissions = PermissionSentinel
                   /\ result[1][k].checksum = None
                   /\ result[1][k].size = None
                   /\ result[1][k].content = None
                   /\ result[1][k].type = "other"
              /\ r.window = "classified" => result[1][k].type = "directory"
              /\ \A q \in r.later :
                   /\ PositionsOf(result[1], q) # {}
                   /\ \A n \in PositionsOf(result[1], q) : n > k

\* A scan has returned after one entry with later siblings was removed
\* before its first query and one directory was removed before its listing.
C23_Witness ==
  /\ ReturnedList
  /\ \E r \in removed : r.window = "listed" /\ r.later # {}
  /\ \E r \in removed : r.window = "classified"

====
